---- MODULE Spec2Model ----
(***************************************************************************)
(* Model of strata-foundry-bridge: the C-ABI entry points of lib.rs over   *)
(* the HandleRegistry of handle.rs (an AtomicU64 id counter and a          *)
(* DashMap<u64, Strata>).  Caller threads invoke the entry points          *)
(* concurrently; each entry point is cut into steps at the points where    *)
(* it touches shared state (the counter, a shard lock of the map) or       *)
(* calls into the engine.                                                  *)
(*                                                                         *)
(* Rust Strings are sequences of tokens in which the characters that JSON  *)
(* escaping or CString::new act on (quote, backslash, NUL) are tokens of   *)
(* their own; a C buffer handed to the caller is the joined string.        *)
(***************************************************************************)
EXTENDS Integers, Sequences, FiniteSets, TLC

VARIABLES
    next_id,      \* HandleRegistry.next_id
    hasher,       \* the seed of the map's RandomState, drawn when the map is built
    handles,      \* HandleRegistry.handles: id -> Strata
    guard,        \* per thread: the id whose dashmap Ref (shard read lock) it holds
    initialized,  \* whether the LazyLock REGISTRY has been forced
    pc,           \* per thread: position inside the entry point it is running
    call,         \* per thread: the entry point and arguments of its current/last call
    local,        \* per thread: the locals of its current/last call (engine: how
                  \* the engine call it made ended, "" if it made none)
    ret,          \* per thread: what its last call handed back to the caller
    aborted,      \* the process was aborted by a panic reaching an extern "C" frame
    issued,       \* history: ids in the order fetch_add produced them
    returned,     \* history: ids in the order open/open_memory returned them
    removed,      \* history: ids whose entry a close removed
    dropped,      \* history: how many times the resource of each id was dropped
    buffers,      \* addresses of the C strings made by into_raw and not yet reclaimed
    owned         \* addresses the caller was handed and has not passed to a free

vars == <<next_id, hasher, handles, guard, initialized, pc, call, local, ret, aborted,
          issued, returned, removed, dropped, buffers, owned>>

-----------------------------------------------------------------------------
(* Bounds *)

NumThreads == 2
MaxOpens == 2
NumShards == 2
NumSeeds == 2
MaxBuffers == 2
MaxLen == 2

Threads == 1..NumThreads
CallerIds == 0..MaxOpens

-----------------------------------------------------------------------------
(* Strings *)

Q == "\""
BS == "\\"
NUL == "<0x00>"

RECURSIVE Join(_)
Join(s) == IF s = <<>> THEN "" ELSE Head(s) \o Join(Tail(s))

RECURSIVE Escape(_)
Escape(s) ==
    IF s = <<>> THEN <<>>
    ELSE LET c == Head(s)
             e == IF c = Q THEN <<BS, Q>>
                  ELSE IF c = BS THEN <<BS, BS>>
                  ELSE IF c = NUL THEN <<BS, "u0000">>
                  ELSE <<c>>
         IN e \o Escape(Tail(s))

json_string(msg) == <<Q>> \o Escape(msg) \o <<Q>>

(* Foreign string arguments *)
NullPtr == [null |-> TRUE, utf8 |-> FALSE, text |-> <<>>]
BadUtf8 == [null |-> FALSE, utf8 |-> FALSE, text |-> <<>>]
CStr(s) == [null |-> FALSE, utf8 |-> TRUE, text |-> s]

None == [some |-> FALSE, val |-> <<>>]
Some(s) == [some |-> TRUE, val |-> s]

(* Mutant: bytes that are not UTF-8 are taken over as they are. *)
cstr_to_str_lossy(ptr) ==
    IF ptr.null THEN None ELSE Some(ptr.text)

cstr_to_str(ptr) ==
    IF ptr.null THEN None
    ELSE IF ptr.utf8 THEN Some(ptr.text) ELSE None

to_c_string(s) ==
    IF \E i \in DOMAIN s : s[i] = NUL THEN "" ELSE Join(s)

ok_json(value) == <<"{", Q, "ok", Q, ":">> \o value \o <<"}">>

(* Mutant: the message is put between quotes as it is. *)
error_json_unescaped(msg) ==
    <<"{", Q, "error", Q, ":{", Q, "Internal", Q, ":{", Q, "reason", Q, ":">>
        \o <<Q>> \o msg \o <<Q>> \o <<"}}}">>

error_json(msg) ==
    <<"{", Q, "error", Q, ":{", Q, "Internal", Q, ":{", Q, "reason", Q, ":">>
        \o json_string(msg) \o <<"}}}">>

PanicJson ==
    <<"{", Q, "error", Q, ":{", Q, "Internal", Q, ":{", Q, "reason", Q, ":",
      Q, "panic in Rust bridge", Q, "}}}">>

(* The closure's outcome: it either unwound or produced a String. *)
Unwound == [panic |-> TRUE, json |-> <<>>]
Done(json) == [panic |-> FALSE, json |-> json]

catch_panic(f) ==
    IF f.panic THEN to_c_string(PanicJson) ELSE to_c_string(f.json)

id_to_string(id) == <<ToString(id)>>

-----------------------------------------------------------------------------
(* The engine (stratadb), seen through the calls the bridge makes.  What a  *)
(* call does is the engine's business: apart from Ping, which answers Pong, *)
(* every call may succeed, report an error or panic.                        *)

PingText == <<"{", Q, "Ping", Q, ":null}">>
KvGetText == <<"{", Q, "KvGet", Q, ":{", Q, "key", Q, ":", Q, "k", Q, "}}">>
GarbageText == <<"not json">>

PongJson == <<"{", Q, "Pong", Q, ":{", Q, "version", Q, ":", Q, "0.1", Q, "}}">>
MaybeJson == <<"{", Q, "Maybe", Q, ":null}">>

(* An engine error: its Display text and its serde_json encoding. *)
EngineErrorDisplay == <<"cannot open ", Q, "/db", Q>>
EngineErrorJson == <<"{", Q, "NotFound", Q, ":{", Q, "entity", Q, ":", Q, "k", Q, "}}">>
OpenErrorTexts == {EngineErrorDisplay}

(* Every text of at most MaxLen characters over an ordinary character and *)
(* the ones JSON escaping and CString::new act on.                          *)
Chars == {"a", Q, BS, NUL}
Messages == UNION {[1..n -> Chars] : n \in 0..MaxLen}

OpenOutcomes == {"ok", "err", "panic"}
ExecOutcomes(cmd) ==
    IF cmd = "Ping" THEN {"ok"} ELSE {"ok", "err", "panic", "unencodable"}
DropOutcomes == {"ok", "panic"}

ExecOutput(cmd) == IF cmd = "Ping" THEN PongJson ELSE MaybeJson

NoStrata == [kind |-> "none", path |-> <<>>]
StrataOpen(path) == [kind |-> "disk", path |-> path]
StrataCache == [kind |-> "memory", path |-> <<>>]

(* serde_json::from_str::<Command> *)
DecodeOk(cmd) == [ok |-> TRUE, cmd |-> cmd, err |-> <<>>]
DecodeErr(e) == [ok |-> FALSE, cmd |-> "", err |-> e]
(* Mutant: text that names no command decodes as some command. *)
DecodeLenient(text) ==
    IF text = PingText THEN DecodeOk("Ping") ELSE DecodeOk("KvGet")

Decode(text) ==
    IF text = PingText THEN DecodeOk("Ping")
    ELSE IF text = KvGetText THEN DecodeOk("KvGet")
    ELSE DecodeErr(<<"expected ident at line 1 column 2">>)

-----------------------------------------------------------------------------
(* HandleRegistry *)

NoGuard == -1
NoId == 0

(* The shard of the DashMap a key falls in: its hash under the map's seed, *)
(* reduced to the number of shards.  Which keys share a shard differs from *)
(* seed to seed.                                                            *)
HashSeeds == 0..(NumSeeds - 1)
ShardOf(id) == ((id + hasher) \div 2) % NumShards

Readers(s) == {t \in Threads : guard[t] # NoGuard /\ ShardOf(guard[t]) = s}

(* Mutant: remove and insert do not wait for the borrows of the shard. *)
CanWriteNoWait(id) == TRUE

(* Mutant: one lock guards the whole map instead of one lock per shard. *)
CanWriteGlobal(id) == \A t \in Threads : guard[t] = NoGuard

(* insert and remove take the write lock of the key's shard, which is      *)
(* granted when no Ref (read lock) on that shard is alive.                  *)
CanWrite(id) == Readers(ShardOf(id)) = {}

(* Mutant: an insert drops the entries that were there. *)
InsertEntryEvict(h, id, strata) == [k \in {id} |-> strata]

InsertEntry(h, id, strata) ==
    [k \in DOMAIN h \cup {id} |-> IF k = id THEN strata ELSE h[k]]

(* Mutant: a remove of an absent key takes the smallest key instead. *)
RemoveEntryOrOldest(h, id) ==
    LET victim == IF id \in DOMAIN h \/ DOMAIN h = {} THEN id
                  ELSE CHOOSE k \in DOMAIN h : \A m \in DOMAIN h : k <= m
    IN [k \in DOMAIN h \ {victim} |-> h[k]]

RemoveEntry(h, id) == [k \in DOMAIN h \ {id} |-> h[k]]

(* Mutant: a counter too narrow for the ids it hands out wraps around. *)
fetch_add_wrapping(n) == IF n >= 2 THEN 1 ELSE n + 1

(* The drop of the Strata value of id, counted: its teardown runs. *)
Drop(d, id) ==
    [k \in DOMAIN d \cup {id} |->
        IF k # id THEN d[k] ELSE IF id \in DOMAIN d THEN d[id] + 1 ELSE 1]

(* AtomicU64::fetch_add(1): the value stored. *)
fetch_add(n) == n + 1

(* Mutant: the command is decoded before the handle is looked up. *)
ExecuteLookupDecodeFirst(h, id, command_json) ==
    LET d == Decode(command_json)
    IN IF ~d.ok THEN [ok |-> FALSE, cmd |-> "", err |-> <<"invalid command JSON: ">> \o d.err]
       ELSE IF id \notin DOMAIN h
            THEN [ok |-> FALSE, cmd |-> "", err |-> <<"invalid handle">>]
            ELSE [ok |-> TRUE, cmd |-> d.cmd, err |-> <<>>]

(* HandleRegistry::execute up to the engine call: lookup, then decode. *)
LookupErr(msg) == [ok |-> FALSE, cmd |-> "", err |-> msg]
LookupOk(cmd) == [ok |-> TRUE, cmd |-> cmd, err |-> <<>>]
ExecuteLookup(h, id, command_json) ==
    IF id \notin DOMAIN h THEN LookupErr(<<"invalid handle">>)
    ELSE LET d == Decode(command_json)
         IN IF d.ok THEN LookupOk(d.cmd)
            ELSE LookupErr(<<"invalid command JSON: ">> \o d.err)

(* Mutant: the output of a successful execute is put under "ok", as the   *)
(* handle id of an open is.                                                 *)
ExecuteFinishWrapped(cmd, outcome) ==
    CASE outcome = "ok" -> [ok |-> TRUE, val |-> ok_json(ExecOutput(cmd))]
      [] outcome = "err" -> [ok |-> FALSE, val |-> EngineErrorJson]
      [] outcome = "unencodable" ->
            [ok |-> FALSE, val |-> <<"failed to serialize output: key must be a string">>]

(* HandleRegistry::execute from the engine call on: Result<String, String>. *)
ExecuteFinish(cmd, outcome) ==
    CASE outcome = "ok" -> [ok |-> TRUE, val |-> ExecOutput(cmd)]
      [] outcome = "err" -> [ok |-> FALSE, val |-> EngineErrorJson]
      [] outcome = "unencodable" ->
            [ok |-> FALSE, val |-> <<"failed to serialize output: key must be a string">>]

-----------------------------------------------------------------------------
(* Caller threads *)

PathInputs == {NullPtr, BadUtf8, CStr(<<"/db">>)}
ConfigInputs == {NullPtr, BadUtf8, CStr(<<"{}">>)}
CommandInputs == {NullPtr, BadUtf8, CStr(PingText), CStr(KvGetText), CStr(GarbageText)}

(* Addresses of buffers handed to the caller; the null pointer. *)
NullAddr == 0
Addresses == 1..MaxBuffers

NoCall == [op |-> "none", id |-> NoId, path |-> NullPtr, cmd |-> NullPtr,
           ptr |-> NullAddr]
NoLocal == [id |-> NoId, found |-> FALSE, fault |-> FALSE, strata |-> NoStrata,
            cmd |-> "", engine |-> ""]

NoRet == [kind |-> "none", text |-> ""]
Buffer(s) == [kind |-> "buffer", text |-> s]
Void == [kind |-> "void", text |-> ""]
Escaped == [kind |-> "unwind", text |-> ""]

(* The counter is kept within MaxOpens: an open starts only if it can get an id. *)
OpenBudget ==
    next_id + Cardinality({u \in Threads : pc[u] \in {"open_engine", "open_alloc"}})
        <= MaxOpens

Init ==
    /\ next_id = 1
    /\ hasher \in HashSeeds
    /\ handles = <<>>
    /\ guard = [t \in Threads |-> NoGuard]
    /\ initialized = FALSE
    /\ pc = [t \in Threads |-> "idle"]
    /\ call = [t \in Threads |-> NoCall]
    /\ local = [t \in Threads |-> NoLocal]
    /\ ret = [t \in Threads |-> NoRet]
    /\ aborted = FALSE
    /\ issued = <<>>
    /\ returned = <<>>
    /\ removed = {}
    /\ dropped = <<>>
    /\ buffers = {}
    /\ owned = {}

Begin(t, c) ==
    /\ ~aborted
    /\ pc[t] = "idle"
    /\ call' = [call EXCEPT ![t] = c]

Goto(t, label) ==
    /\ pc' = [pc EXCEPT ![t] = label]
    /\ ret' = [ret EXCEPT ![t] = NoRet]

Return(t, r) ==
    /\ pc' = [pc EXCEPT ![t] = "idle"]
    /\ ret' = [ret EXCEPT ![t] = r]

Step(t, label) ==
    /\ ~aborted
    /\ pc[t] = label

(* Mutant: a config that is given but is not valid text is refused. *)
strata_open_config_checked(t, path, config) ==
    /\ OpenBudget
    /\ Begin(t, [NoCall EXCEPT !.op = "open", !.path = path])
    /\ local' = [local EXCEPT ![t] = NoLocal]
    /\ LET path_str == cstr_to_str(path)
           config_str == cstr_to_str(config)
       IN IF ~path_str.some
          THEN /\ Return(t, Buffer(catch_panic(
                        Done(error_json(<<"path is null or invalid UTF-8">>)))))
               /\ UNCHANGED initialized
          ELSE IF ~config.null /\ ~config_str.some
          THEN /\ Return(t, Buffer(catch_panic(
                        Done(error_json(<<"config_json is invalid UTF-8">>)))))
               /\ UNCHANGED initialized
          ELSE /\ Goto(t, "open_engine")
               /\ initialized' = TRUE
    /\ UNCHANGED <<next_id, hasher, handles, guard, aborted, issued, returned, removed,
                   dropped>>

(* strata_open: the argument checks, up to the call of REGISTRY.open. *)
strata_open(t, path, config) ==
    /\ OpenBudget
    /\ Begin(t, [NoCall EXCEPT !.op = "open", !.path = path])
    /\ local' = [local EXCEPT ![t] = NoLocal]
    /\ LET path_str == cstr_to_str(path)
           config_str == cstr_to_str(config)
       IN IF path_str.some
          THEN /\ Goto(t, "open_engine")
               /\ initialized' = TRUE
          ELSE /\ Return(t, Buffer(catch_panic(
                        Done(error_json(<<"path is null or invalid UTF-8">>)))))
               /\ UNCHANGED initialized
    /\ UNCHANGED <<next_id, hasher, handles, guard, aborted, issued, returned, removed,
                   dropped>>

(* strata_open_memory, up to the call of REGISTRY.open_memory. *)
strata_open_memory(t) ==
    /\ OpenBudget
    /\ Begin(t, [NoCall EXCEPT !.op = "open_memory"])
    /\ local' = [local EXCEPT ![t] = NoLocal]
    /\ Goto(t, "open_engine")
    /\ initialized' = TRUE
    /\ UNCHANGED <<next_id, hasher, handles, guard, aborted, issued, returned, removed,
                   dropped>>

(* Mutant: the id is taken from the counter before the engine is asked to *)
(* open, so an open that the engine refuses has used one up.                *)
OpenEngineIdFirst(t, msg) ==
    /\ Step(t, "open_engine")
    /\ \E outcome \in OpenOutcomes :
         CASE outcome = "ok" ->
                /\ local' = [local EXCEPT ![t].engine = outcome, ![t].strata =
                        IF call[t].op = "open"
                        THEN StrataOpen(cstr_to_str(call[t].path).val)
                        ELSE StrataCache]
                /\ pc' = [pc EXCEPT ![t] = "open_alloc"]
                /\ UNCHANGED <<ret, next_id, issued>>
           [] outcome = "err" ->
                /\ Return(t, Buffer(catch_panic(Done(error_json(msg)))))
                /\ local' = [local EXCEPT ![t].engine = outcome]
                /\ next_id' = fetch_add(next_id)
                /\ issued' = Append(issued, next_id)
           [] outcome = "panic" ->
                /\ Return(t, Buffer(catch_panic(Unwound)))
                /\ local' = [local EXCEPT ![t].engine = outcome, ![t].fault = TRUE]
                /\ UNCHANGED <<next_id, issued>>
    /\ UNCHANGED <<hasher, handles, guard, initialized, call, aborted,
                   returned, removed, dropped>>

(* Strata::open(path) / Strata::cache() and the `?` on its result; msg is  *)
(* the Display text of the error the engine reports, if it reports one.     *)
OpenEngine(t, msg) ==
    /\ Step(t, "open_engine")
    /\ \E outcome \in OpenOutcomes :
         CASE outcome = "ok" ->
                /\ local' = [local EXCEPT ![t].engine = outcome, ![t].strata =
                        IF call[t].op = "open"
                        THEN StrataOpen(cstr_to_str(call[t].path).val)
                        ELSE StrataCache]
                /\ pc' = [pc EXCEPT ![t] = "open_alloc"]
                /\ UNCHANGED ret
           [] outcome = "err" ->
                /\ Return(t, Buffer(catch_panic(Done(error_json(msg)))))
                /\ local' = [local EXCEPT ![t].engine = outcome]
           [] outcome = "panic" ->
                /\ Return(t, Buffer(catch_panic(Unwound)))
                /\ local' = [local EXCEPT ![t].engine = outcome, ![t].fault = TRUE]
    /\ UNCHANGED <<next_id, hasher, handles, guard, initialized, call, aborted, issued,
                   returned, removed, dropped>>

(* Mutant: an open takes the smallest id that has no entry again instead  *)
(* of a fresh one.                                                          *)
OpenFetchAddReuse(t) ==
    /\ Step(t, "open_alloc")
    /\ LET taken == DOMAIN handles \cup
                    {local[u].id : u \in {v \in Threads : pc[v] = "open_insert"}}
           free == CHOOSE i \in 1..next_id :
                        i \notin taken /\ \A j \in 1..(i - 1) : j \in taken
       IN /\ local' = [local EXCEPT ![t].id = free]
          /\ next_id' = IF free = next_id THEN fetch_add(next_id) ELSE next_id
          /\ issued' = Append(issued, free)
    /\ pc' = [pc EXCEPT ![t] = "open_insert"]
    /\ UNCHANGED <<hasher, handles, guard, initialized, call, ret, aborted, returned,
                   removed, dropped>>

(* Mutant: the counter is read and written back in two steps, so the     *)
(* increment of a thread that allocates at the same time is lost.          *)
OpenFetchAddRacy(t) ==
    /\ Step(t, "open_alloc")
    /\ local' = [local EXCEPT ![t].id = next_id]
    /\ next_id' = IF \E u \in Threads \ {t} : pc[u] = "open_alloc"
                  THEN next_id ELSE fetch_add(next_id)
    /\ issued' = Append(issued, next_id)
    /\ pc' = [pc EXCEPT ![t] = "open_insert"]
    /\ UNCHANGED <<hasher, handles, guard, initialized, call, ret, aborted, returned,
                   removed, dropped>>

(* let id = self.next_id.fetch_add(1, Relaxed) *)
OpenFetchAdd(t) ==
    /\ Step(t, "open_alloc")
    /\ local' = [local EXCEPT ![t].id = next_id]
    /\ next_id' = fetch_add(next_id)
    /\ issued' = Append(issued, next_id)
    /\ pc' = [pc EXCEPT ![t] = "open_insert"]
    /\ UNCHANGED <<hasher, handles, guard, initialized, call, ret, aborted, returned,
                   removed, dropped>>

(* self.handles.insert(id, strata); Ok(id), and the envelope made of it.  *)
(* insert gives back the value the key had, if it had one, and that value   *)
(* is dropped on the spot.                                                  *)
OpenInsert(t) ==
    /\ Step(t, "open_insert")
    /\ CanWrite(local[t].id)
    /\ handles' = InsertEntry(handles, local[t].id, local[t].strata)
    /\ dropped' = IF local[t].id \in DOMAIN handles
                  THEN Drop(dropped, local[t].id) ELSE dropped
    /\ returned' = Append(returned, local[t].id)
    /\ Return(t, Buffer(catch_panic(Done(ok_json(id_to_string(local[t].id))))))
    /\ UNCHANGED <<next_id, hasher, guard, initialized, call, local, aborted, issued,
                   removed>>

(* strata_close, up to the call of REGISTRY.close. *)
strata_close(t, id) ==
    /\ Begin(t, [NoCall EXCEPT !.op = "close", !.id = id])
    /\ local' = [local EXCEPT ![t] = NoLocal]
    /\ Goto(t, "close_remove")
    /\ initialized' = TRUE
    /\ UNCHANGED <<next_id, hasher, handles, guard, aborted, issued, returned, removed,
                   dropped>>

(* self.handles.remove(&id): under the shard's write lock. *)
CloseRemove(t) ==
    /\ Step(t, "close_remove")
    /\ CanWrite(call[t].id)
    /\ LET after == RemoveEntry(handles, call[t].id)
           gone == DOMAIN handles \ DOMAIN after
       IN /\ handles' = after
          /\ removed' = removed \cup gone
          /\ IF gone # {}
             THEN /\ local' = [local EXCEPT ![t].found = TRUE,
                                            ![t].id = call[t].id,
                                            ![t].strata = handles[CHOOSE k \in gone : TRUE]]
                  /\ pc' = [pc EXCEPT ![t] = "close_drop"]
                  /\ UNCHANGED ret
             ELSE /\ Return(t, Void)
                  /\ UNCHANGED local
    /\ UNCHANGED <<next_id, hasher, guard, initialized, call, aborted, issued, returned,
                   dropped>>

(* The removed (key, Strata) pair is dropped: the resource's teardown.  A  *)
(* panic in it meets no catch_unwind before the extern "C" frame: the       *)
(* process aborts, or (older toolchains) the unwind enters the caller.      *)
CloseDrop(t) ==
    /\ Step(t, "close_drop")
    /\ \E outcome \in DropOutcomes :
         CASE outcome = "ok" ->
                /\ Return(t, Void)
                /\ UNCHANGED <<local, aborted>>
           [] outcome = "panic" ->
                /\ local' = [local EXCEPT ![t].fault = TRUE]
                /\ \/ aborted' = TRUE /\ UNCHANGED <<pc, ret>>
                   \/ Return(t, Escaped) /\ UNCHANGED aborted
    /\ dropped' = Drop(dropped, local[t].id)
    /\ UNCHANGED <<next_id, hasher, handles, guard, initialized, call, issued, returned,
                   removed>>

(* strata_execute: the argument check, up to the call of REGISTRY.execute. *)
(* local.found records whether the id had a live entry when the call        *)
(* resolved it or, for a call that returns before resolving it, right then. *)
strata_execute(t, id, command_json) ==
    /\ Begin(t, [NoCall EXCEPT !.op = "execute", !.id = id, !.cmd = command_json])
    /\ LET json_str == cstr_to_str(command_json)
       IN IF json_str.some
          THEN /\ Goto(t, "exec_get")
               /\ local' = [local EXCEPT ![t] = NoLocal]
               /\ initialized' = TRUE
          ELSE /\ Return(t, Buffer(catch_panic(
                        Done(error_json(<<"command_json is null or invalid UTF-8">>)))))
               /\ local' = [local EXCEPT ![t] =
                        [NoLocal EXCEPT !.found = id \in DOMAIN handles]]
               /\ UNCHANGED initialized
    /\ UNCHANGED <<next_id, hasher, handles, guard, aborted, issued, returned, removed,
                   dropped>>

(* self.handles.get(&id) and the decoding of the command; on success the   *)
(* Ref, and with it the shard's read lock, is held on.                      *)
ExecGet(t) ==
    /\ Step(t, "exec_get")
    /\ LET r == ExecuteLookup(handles, call[t].id, cstr_to_str(call[t].cmd).val)
       IN IF r.ok
          THEN /\ guard' = [guard EXCEPT ![t] = call[t].id]
               /\ local' = [local EXCEPT ![t].found = TRUE, ![t].cmd = r.cmd]
               /\ pc' = [pc EXCEPT ![t] = "exec_engine"]
               /\ UNCHANGED ret
          ELSE /\ Return(t, Buffer(catch_panic(Done(error_json(r.err)))))
               /\ local' = [local EXCEPT ![t].found = call[t].id \in DOMAIN handles]
               /\ UNCHANGED guard
    /\ UNCHANGED <<next_id, hasher, handles, initialized, call, aborted, issued, returned,
                   removed, dropped>>

(* Mutant: the Ref is not dropped when the engine call unwinds. *)
ExecEngineLeak(t) ==
    /\ Step(t, "exec_engine")
    /\ \E outcome \in ExecOutcomes(local[t].cmd) :
         IF outcome = "panic"
         THEN /\ Return(t, Buffer(catch_panic(Unwound)))
              /\ local' = [local EXCEPT ![t].engine = outcome, ![t].fault = TRUE]
              /\ UNCHANGED guard
         ELSE /\ LET r == ExecuteFinish(local[t].cmd, outcome)
                 IN Return(t, Buffer(catch_panic(
                        Done(IF r.ok THEN r.val ELSE error_json(r.val)))))
              /\ guard' = [guard EXCEPT ![t] = NoGuard]
              /\ local' = [local EXCEPT ![t].engine = outcome]
    /\ UNCHANGED <<next_id, hasher, handles, initialized, call, aborted, issued, returned,
                   removed, dropped>>

(* handle.executor().execute(cmd), the encoding of its result, and the     *)
(* drop of the Ref on the way out (also when unwinding).                    *)
ExecEngine(t) ==
    /\ Step(t, "exec_engine")
    /\ \E outcome \in ExecOutcomes(local[t].cmd) :
         IF outcome = "panic"
         THEN /\ Return(t, Buffer(catch_panic(Unwound)))
              /\ local' = [local EXCEPT ![t].engine = outcome, ![t].fault = TRUE]
         ELSE /\ LET r == ExecuteFinish(local[t].cmd, outcome)
                 IN Return(t, Buffer(catch_panic(
                        Done(IF r.ok THEN r.val ELSE error_json(r.val)))))
              /\ local' = [local EXCEPT ![t].engine = outcome]
    /\ guard' = [guard EXCEPT ![t] = NoGuard]
    /\ UNCHANGED <<next_id, hasher, handles, initialized, call, aborted, issued, returned,
                   removed, dropped>>

(* Mutant: the ping goes through the registry, which it forces. *)
strata_ping_registry(t) ==
    /\ Begin(t, [NoCall EXCEPT !.op = "ping"])
    /\ local' = [local EXCEPT ![t] = NoLocal]
    /\ Return(t, Buffer(to_c_string(
            <<"{", Q, "ok", Q, ":", Q, "strata-foundry-bridge", Q, "}">>)))
    /\ initialized' = TRUE
    /\ UNCHANGED <<next_id, hasher, handles, guard, aborted, issued, returned,
                   removed, dropped>>

(* strata_ping *)
strata_ping(t) ==
    /\ Begin(t, [NoCall EXCEPT !.op = "ping"])
    /\ local' = [local EXCEPT ![t] = NoLocal]
    /\ Return(t, Buffer(to_c_string(
            <<"{", Q, "ok", Q, ":", Q, "strata-foundry-bridge", Q, "}">>)))
    /\ UNCHANGED <<next_id, hasher, handles, guard, initialized, aborted, issued, returned,
                   removed, dropped>>

(* CString::into_raw, reached through to_c_string by every call that      *)
(* returns text: the string gets an address that is not in use, never the  *)
(* null one, and the caller is handed it.  bufs is the set of addresses in *)
(* use; the allocator is taken to be first-fit.                             *)
FirstFit(bufs) ==
    {a \in Addresses \ bufs : \A b \in Addresses \ bufs : a <= b}
into_raw(bufs, a) == bufs \cup {a}

(* Mutant: the reclaiming of one buffer releases all of them. *)
from_raw_all(bufs, ptr) == {}

(* CString::from_raw and the drop of the CString: the address is free again. *)
from_raw(bufs, ptr) == bufs \ {ptr}

(* The end of a step of thread t, where the buffers are followed: a step   *)
(* that returns text to the caller has materialized it.                     *)
Handover(t) ==
    IF pc'[t] = "idle" /\ ret'[t].kind = "buffer"
    THEN \E a \in FirstFit(buffers) :
            /\ buffers' = into_raw(buffers, a)
            /\ owned' = owned \cup {a}
    ELSE UNCHANGED <<buffers, owned>>

(* strata_free_string: a null pointer is left alone, any other is taken    *)
(* back with CString::from_raw and dropped.                                 *)
strata_free_string(t, ptr) ==
    /\ Begin(t, [NoCall EXCEPT !.op = "free", !.ptr = ptr])
    /\ local' = [local EXCEPT ![t] = NoLocal]
    /\ Return(t, Void)
    /\ buffers' = IF ptr # NullAddr THEN from_raw(buffers, ptr) ELSE buffers
    /\ owned' = owned \ {ptr}
    /\ UNCHANGED <<next_id, hasher, handles, guard, initialized, aborted, issued,
                   returned, removed, dropped>>

(* Where the buffers handed out are not followed. *)
HeapKept == UNCHANGED <<buffers, owned>>

Next ==
    \E t \in Threads :
        \/ /\ \E path \in PathInputs, config \in ConfigInputs :
                  strata_open(t, path, config)
           /\ HeapKept
        \/ strata_open_memory(t) /\ HeapKept
        \/ (\E msg \in OpenErrorTexts : OpenEngine(t, msg)) /\ HeapKept
        \/ OpenFetchAdd(t) /\ HeapKept
        \/ OpenInsert(t) /\ HeapKept
        \/ (\E id \in CallerIds : strata_close(t, id)) /\ HeapKept
        \/ CloseRemove(t) /\ HeapKept
        \/ CloseDrop(t) /\ HeapKept
        \/ /\ \E id \in CallerIds, cmd \in CommandInputs : strata_execute(t, id, cmd)
           /\ HeapKept
        \/ ExecGet(t) /\ HeapKept
        \/ ExecEngine(t) /\ HeapKept
        \/ strata_ping(t) /\ HeapKept

Spec == Init /\ [][Next]_vars

(* A step inside a call of thread t.  The caller's thread runs on: a step  *)
(* that stays possible is taken in the end, and an engine call or a         *)
(* teardown comes to an end.  A step that waits for a shard's write lock    *)
(* is possible only while no borrow of the shard is alive; the lock does    *)
(* not hold new borrows back for a waiting writer.                          *)
CallStep(t) ==
    /\ \/ \E msg \in OpenErrorTexts : OpenEngine(t, msg)
       \/ OpenFetchAdd(t)
       \/ OpenInsert(t)
       \/ CloseRemove(t)
       \/ CloseDrop(t)
       \/ ExecGet(t)
       \/ ExecEngine(t)
    /\ HeapKept

FairSpec == Spec /\ \A t \in Threads : WF_vars(CallStep(t))

(* The same calls with the buffers followed, and a caller that passes each *)
(* buffer it was handed to strata_free_string once, or passes null; it      *)
(* works with the first handle only.                                        *)
FewPaths == {NullPtr, CStr(<<"/db">>)}
FewCommands == {NullPtr, CStr(KvGetText), CStr(GarbageText)}
FewIds == {1}

BufferNext ==
    \E t \in Threads :
        \/ (\E path \in FewPaths : strata_open(t, path, NullPtr)) /\ Handover(t)
        \/ strata_open_memory(t) /\ Handover(t)
        \/ (\E msg \in OpenErrorTexts : OpenEngine(t, msg)) /\ Handover(t)
        \/ OpenFetchAdd(t) /\ Handover(t)
        \/ OpenInsert(t) /\ Handover(t)
        \/ (\E id \in FewIds : strata_close(t, id)) /\ Handover(t)
        \/ CloseRemove(t) /\ Handover(t)
        \/ CloseDrop(t) /\ Handover(t)
        \/ /\ \E id \in FewIds, cmd \in FewCommands : strata_execute(t, id, cmd)
           /\ Handover(t)
        \/ ExecGet(t) /\ Handover(t)
        \/ ExecEngine(t) /\ Handover(t)
        \/ strata_ping(t) /\ Handover(t)
        \/ \E ptr \in {NullAddr} \cup owned : strata_free_string(t, ptr)

BufferSpec == Init /\ [][BufferNext]_vars

(* Callers that open, and execute on the first handle, against an engine   *)
(* whose open may fail with any message.                                    *)
ErrorNext ==
    \E t \in Threads :
        \/ (\E path \in FewPaths : strata_open(t, path, NullPtr)) /\ HeapKept
        \/ strata_open_memory(t) /\ HeapKept
        \/ (\E msg \in Messages : OpenEngine(t, msg)) /\ HeapKept
        \/ OpenFetchAdd(t) /\ HeapKept
        \/ OpenInsert(t) /\ HeapKept
        \/ /\ \E id \in FewIds, cmd \in FewCommands : strata_execute(t, id, cmd)
           /\ HeapKept
        \/ ExecGet(t) /\ HeapKept
        \/ ExecEngine(t) /\ HeapKept

ErrorSpec == Init /\ [][ErrorNext]_vars

-----------------------------------------------------------------------------
(* Properties *)

Range(f) == {f[i] : i \in DOMAIN f}

InvalidHandleEnvelope == "{\"error\":{\"Internal\":{\"reason\":\"invalid handle\"}}}"
InvalidCommandPtrEnvelope ==
    "{\"error\":{\"Internal\":{\"reason\":\"command_json is null or invalid UTF-8\"}}}"
PanicEnvelope == "{\"error\":{\"Internal\":{\"reason\":\"panic in Rust bridge\"}}}"
PongEnvelope == "{\"Pong\":{\"version\":\"0.1\"}}"

(* Thread t's last call was op and has returned. *)
Completed(t, op) == pc[t] = "idle" /\ call[t].op = op
ExecDone(t) == Completed(t, "execute")
OpenDone(t) ==
    /\ pc[t] = "idle"
    /\ call[t].op \in {"open", "open_memory"}
    /\ local[t].id # NoId
OnlyThread(t) == \A u \in Threads \ {t} : call[u] = NoCall

(* C1: ids come out of the counter starting at 1 and strictly increasing,  *)
(* and an id returned by open/open_memory was never returned before, also   *)
(* when the earlier id has been closed since.                               *)
C1_IdsNeverReused ==
    /\ issued # <<>> => issued[1] = 1
    /\ \A i, j \in DOMAIN issued : i < j => issued[i] < issued[j]
    /\ \A i, j \in DOMAIN returned : i # j => returned[i] # returned[j]
    /\ Range(returned) \subseteq Range(issued)

(* One thread opened 1, closed it, and then opened again and got 2. *)
C1_Witness ==
    \E t \in Threads :
        /\ OnlyThread(t)
        /\ OpenDone(t)
        /\ removed = {1}
        /\ returned = <<1, 2>>
        /\ ret[t] = Buffer("{\"ok\":2}")

(* C2: concurrent open_memory calls that succeed return pairwise distinct  *)
(* ids, as many as there were calls, and every returned id that no close    *)
(* has removed has an entry of its own in the registry.                     *)
C2_ConcurrentOpensDistinct ==
    /\ \A t, u \in Threads :
         (t # u /\ pc[t] = "open_insert" /\ pc[u] = "open_insert")
            => local[t].id # local[u].id
    /\ \A t, u \in Threads :
         (t # u /\ OpenDone(t) /\ OpenDone(u)) => local[t].id # local[u].id
    /\ \A t \in Threads :
         OpenDone(t) =>
            /\ ret[t] = Buffer("{\"ok\":" \o ToString(local[t].id) \o "}")
            /\ local[t].id \notin removed =>
                  /\ local[t].id \in DOMAIN handles
                  /\ handles[local[t].id] = local[t].strata
    /\ Cardinality(DOMAIN handles) + Cardinality(removed) = Len(returned)

(* Every thread has returned from open_memory, nothing was closed, and the *)
(* calls overlapped: the id taken second was inserted first.                *)
C2_Witness ==
    /\ \A t \in Threads : OpenDone(t) /\ call[t].op = "open_memory"
    /\ removed = {}
    /\ Len(returned) = NumThreads
    /\ returned[1] > returned[2]
    /\ Cardinality(DOMAIN handles) = NumThreads

(* C3, as claimed: execute on an id with no live entry answers "invalid   *)
(* handle" whatever the command argument is, a null or non-UTF-8 one too.   *)
C3_AnyCommandInvalidHandle ==
    \A t \in Threads :
        (ExecDone(t) /\ ~local[t].found) => ret[t] = Buffer(InvalidHandleEnvelope)

(* C3, amended: execute on an id with no live entry never faults; it       *)
(* answers "invalid handle" for every command argument that is present and  *)
(* valid text (decodable or not), and the null-or-invalid-UTF-8 error for   *)
(* an argument that is null or not valid text.                              *)
C3_InvalidHandleForTextCommand ==
    \A t \in Threads :
        (ExecDone(t) /\ ~local[t].found) =>
            /\ ~local[t].fault
            /\ ret[t] = IF cstr_to_str(call[t].cmd).some
                        THEN Buffer(InvalidHandleEnvelope)
                        ELSE Buffer(InvalidCommandPtrEnvelope)

(* execute of an undecodable command on a closed id said "invalid handle". *)
C3_Witness ==
    \E t \in Threads :
        /\ ExecDone(t)
        /\ ~local[t].found
        /\ call[t].id \in removed
        /\ call[t].cmd = CStr(GarbageText)
        /\ ret[t] = Buffer(InvalidHandleEnvelope)

(* C4: an execute that resolves an id after a close removed it returns     *)
(* exactly the invalid-handle envelope for every valid-text command, and a  *)
(* removed id stays removed however many handles are opened later; an       *)
(* execute of {"Ping":null} that found the id live returns the Pong output. *)
C4_ClosedStaysInvalid ==
    [][/\ removed \subseteq removed'
       /\ \A id \in removed : id \notin DOMAIN handles'
       /\ \A t \in Threads :
            (pc[t] = "exec_get" /\ pc'[t] # "exec_get" /\ call[t].id \in removed)
                => /\ pc'[t] = "idle"
                   /\ ret'[t] = Buffer(InvalidHandleEnvelope)
       /\ \A t \in Threads :
            (ExecDone(t)' /\ local'[t].found /\ call'[t].cmd = CStr(PingText))
                => ret'[t] = Buffer(PongEnvelope)
      ]_vars

(* One thread opened 1, pinged it, closed it, opened 2 and executed on 1.  *)
C4_Witness ==
    \E t \in Threads :
        /\ OnlyThread(t)
        /\ ExecDone(t)
        /\ call[t].id = 1
        /\ call[t].cmd = CStr(PingText)
        /\ removed = {1}
        /\ returned = <<1, 2>>
        /\ 2 \in DOMAIN handles
        /\ ret[t] = Buffer(InvalidHandleEnvelope)

(* C5, as claimed: no fault raised inside an entry point, strata_close     *)
(* included, crosses the boundary: the process is not aborted and no call   *)
(* ends by unwinding into the caller.                                       *)
C5_NoFaultCrossesBoundary ==
    /\ ~aborted
    /\ \A t \in Threads : ret[t].kind # "unwind"

(* C6: an execute, open or open_memory whose body faults returns exactly   *)
(* the panic envelope, has allocated no id and inserted nothing, leaves the *)
(* entries and the counter as they are, and holds no borrow afterwards.     *)
C6_FaultLeavesRegistryAlone ==
    [][\A t \in Threads :
        (/\ call[t].op \in {"open", "open_memory", "execute"}
         /\ pc[t] # "idle" /\ pc'[t] = "idle"
         /\ local'[t].fault)
            => /\ ret'[t] = Buffer(PanicEnvelope)
               /\ handles' = handles
               /\ next_id' = next_id
               /\ local[t].id = NoId
               /\ guard'[t] = NoGuard
               /\ \A s \in 0..(NumShards - 1) : t \notin Readers(s)'
               /\ ~aborted'
      ]_vars

(* An execute on a live handle faulted in the engine and was answered with *)
(* the panic envelope; the handle is still there and nobody holds a borrow. *)
C6_Witness ==
    \E t \in Threads :
        /\ ExecDone(t)
        /\ local[t].fault
        /\ call[t].id \in DOMAIN handles
        /\ \A u \in Threads : guard[u] = NoGuard
        /\ ret[t] = Buffer(PanicEnvelope)

(* C7: while an execute is in its engine call it holds the borrow of its  *)
(* id, the entry is in the table and no close is tearing that resource      *)
(* down; and an execute with a decodable command ends in one of two ways:   *)
(* it found the entry and ran the engine call, or it did not and returned   *)
(* the invalid-handle error.                                                *)
C7_ExecuteCloseRace ==
    /\ \A t \in Threads :
         pc[t] = "exec_engine" =>
            /\ guard[t] = call[t].id
            /\ call[t].id \in DOMAIN handles
            /\ \A u \in Threads :
                 ~(pc[u] = "close_drop" /\ local[u].id = call[t].id)
    /\ \A t \in Threads :
         (ExecDone(t) /\ cstr_to_str(call[t].cmd).some
            /\ Decode(cstr_to_str(call[t].cmd).val).ok) =>
            IF local[t].found
            THEN local[t].cmd # "" /\ ret[t] # Buffer(InvalidHandleEnvelope)
            ELSE local[t].cmd = "" /\ ret[t] = Buffer(InvalidHandleEnvelope)

(* An execute is inside the engine while a close of the same id waits.     *)
C7_Witness ==
    \E t, u \in Threads :
        /\ pc[t] = "exec_engine"
        /\ pc[u] = "close_remove"
        /\ call[u].id = call[t].id
        /\ ~CanWrite(call[u].id)

(* A thread about to take a shard's write lock, and the key it is for. *)
WantsWrite(u) == pc[u] \in {"open_insert", "close_remove"}
Target(u) == IF pc[u] = "open_insert" THEN local[u].id ELSE call[u].id
Blocked(u) == WantsWrite(u) /\ ~CanWrite(Target(u))

(* C8, as claimed: an insert or a close of id B is never held up by an     *)
(* execute in flight on another id: whenever it has to wait, a borrow of B  *)
(* itself is alive.                                                         *)
C8_OnlySameIdBlocks ==
    \A u \in Threads :
        Blocked(u) => \E t \in Threads \ {u} : guard[t] = Target(u)

(* C8, amended: operations on ids of different shards of the map never     *)
(* block each other: an insert or a close of B waits only while an execute  *)
(* in flight holds a borrow in B's shard, which may be on another id A that *)
(* the hash places in the same shard; the lookup of an execute never waits  *)
(* for an execute in flight.                                                *)
C8_OnlySameShardBlocks ==
    /\ \A u \in Threads :
         Blocked(u) =>
            \E t \in Threads \ {u} :
                guard[t] # NoGuard /\ ShardOf(guard[t]) = ShardOf(Target(u))
    /\ \A u \in Threads :
         (pc[u] = "exec_get" /\ ~aborted) => ENABLED ExecGet(u)

(* An execute is in flight on A while an insert of a new id B of another   *)
(* shard is free to proceed.                                                *)
C8_Witness ==
    \E t, u \in Threads :
        /\ pc[t] = "exec_engine"
        /\ pc[u] = "open_insert"
        /\ ShardOf(local[u].id) # ShardOf(guard[t])
        /\ ~Blocked(u)

(* The closes that have returned, as far as the threads' last calls show. *)
ClosedSeen == {call[u].id : u \in {v \in Threads : Completed(v, "close") /\ ret[v] = Void}}

(* C9, as claimed: (when no call is in flight) the live entries are the    *)
(* ids returned by open/open_memory minus the ids passed to a completed     *)
(* close.                                                                   *)
C9_LiveIsReturnedMinusClosed ==
    (\A t \in Threads : pc[t] = "idle") =>
        DOMAIN handles = Range(returned) \ (removed \cup ClosedSeen)

(* C9, amended: in every state the live entries are the ids returned by    *)
(* open/open_memory minus the ids whose entry a close has removed (a close  *)
(* of an id that had no entry at the time takes nothing away, also not      *)
(* from a later open that is given that id); every live id is at least 1    *)
(* and below the counter; an execute reaches the engine only on a live id   *)
(* and reports "invalid handle" for a valid-text command on any other.      *)
C9_LiveIsReturnedMinusRemoved ==
    /\ DOMAIN handles = Range(returned) \ removed
    /\ removed \subseteq Range(returned)
    /\ \A id \in DOMAIN handles : 1 <= id /\ id < next_id
    /\ \A t \in Threads : pc[t] = "exec_engine" => call[t].id \in DOMAIN handles
    /\ \A t \in Threads :
         (ExecDone(t) /\ cstr_to_str(call[t].cmd).some) =>
            (local[t].found <=> ret[t] # Buffer(InvalidHandleEnvelope))

(* An id that was passed to a close before it was issued is live. *)
C9_Witness ==
    \E t, u \in Threads :
        /\ Completed(u, "close") /\ ~local[u].found
        /\ OpenDone(t)
        /\ local[t].id = call[u].id
        /\ call[u].id \in DOMAIN handles
        /\ removed # {}

(* C10: a close of an id that has no entry (closed before, or never        *)
(* issued) reports nothing, removes nothing, leaves the entries, the        *)
(* counter and the history of removals as they are, and returns.            *)
C10_CloseIdempotent ==
    [][\A t \in Threads :
        (pc[t] = "close_remove" /\ pc'[t] # "close_remove"
            /\ call[t].id \notin DOMAIN handles)
            => /\ handles' = handles
               /\ next_id' = next_id
               /\ removed' = removed
               /\ pc'[t] = "idle"
               /\ ret'[t] = Void
               /\ ~local'[t].fault
               /\ ~aborted'
      ]_vars

(* One thread closed an id a second time, another an id never issued, and  *)
(* a live entry is still there.                                             *)
C10_Witness ==
    \E t, u \in Threads :
        /\ Completed(t, "close") /\ ~local[t].found /\ ret[t] = Void
        /\ call[t].id \in removed
        /\ Completed(u, "close") /\ ~local[u].found /\ ret[u] = Void
        /\ call[u].id \notin Range(issued)
        /\ DOMAIN handles # {}

(* The engine's error object as the value of "error", and what the bridge  *)
(* makes of it.                                                             *)
EngineErrorEnvelope == "{\"error\":{\"NotFound\":{\"entity\":\"k\"}}}"
EngineErrorAsReason ==
    "{\"error\":{\"Internal\":{\"reason\":\"{\\\"NotFound\\\":{\\\"entity\\\":\\\"k\\\"}}\"}}}"

(* Thread t's last call was an execute whose engine call ended as outcome. *)
ExecEnded(t, outcome) == ExecDone(t) /\ local[t].engine = outcome

(* C11, as claimed: when the engine call of an execute reports an engine   *)
(* error, the returned envelope has the engine's error object itself as     *)
(* the value of "error": not wrapped in another kind, not turned into a     *)
(* string.                                                                  *)
C11_EngineErrorPassedThrough ==
    \A t \in Threads :
        ExecEnded(t, "err") => ret[t] = Buffer(EngineErrorEnvelope)

(* What the bridge returns instead: the error object's JSON text, escaped, *)
(* as the reason string of an Internal error.                               *)
C11_EngineErrorWrapped ==
    \A t \in Threads :
        ExecEnded(t, "err") => ret[t] = Buffer(EngineErrorAsReason)

MalformedCommandEnvelope ==
    "{\"error\":{\"Internal\":{\"reason\":\"invalid command JSON: expected ident at line 1 column 2\"}}}"

(* The text begins with prefix. *)
StartsWith(text, prefix) ==
    Len(text) >= Len(prefix) /\ SubSeq(text, 1, Len(prefix)) = prefix
(* The text is a JSON object whose first key is key. *)
TopLevelKey(text, key) == StartsWith(text, "{\"" \o key \o "\":")

(* The command argument of t's call is valid text that does not decode. *)
Undecodable(t) ==
    /\ cstr_to_str(call[t].cmd).some
    /\ ~Decode(cstr_to_str(call[t].cmd).val).ok

(* C12: a successful execute returns the engine's encoding of the Output   *)
(* itself as the whole payload, not under "ok" (and not under "error");     *)
(* open and open_memory return {"ok":<id>} on success; an execute that      *)
(* fails in the transport (absent or non-text command, bad handle,          *)
(* undecodable command, fault, unencodable output) returns a buffer whose   *)
(* top-level key is "error".                                                *)
C12_EnvelopeShapes ==
    \A t \in Threads :
        /\ ExecEnded(t, "ok") =>
              /\ ret[t] = Buffer(Join(ExecOutput(local[t].cmd)))
              /\ ~TopLevelKey(ret[t].text, "ok")
              /\ ~TopLevelKey(ret[t].text, "error")
        /\ OpenDone(t) =>
              ret[t] = Buffer("{\"ok\":" \o ToString(local[t].id) \o "}")
        /\ (ExecDone(t) /\ local[t].engine # "ok") =>
              /\ ret[t].kind = "buffer"
              /\ TopLevelKey(ret[t].text, "error")
        /\ (ExecDone(t) /\ ~cstr_to_str(call[t].cmd).some) =>
              ret[t] = Buffer(InvalidCommandPtrEnvelope)
        /\ (ExecDone(t) /\ cstr_to_str(call[t].cmd).some /\ ~local[t].found) =>
              ret[t] = Buffer(InvalidHandleEnvelope)
        /\ (ExecDone(t) /\ local[t].found /\ Undecodable(t)) =>
              ret[t] = Buffer(MalformedCommandEnvelope)
        /\ (ExecDone(t) /\ local[t].fault) =>
              ret[t] = Buffer(PanicEnvelope)

(* After an open returned {"ok":1}, one thread's execute on 1 returned the *)
(* output of the engine and the other's, of an undecodable command, an      *)
(* error envelope.                                                          *)
C12_Witness ==
    \E t, u \in Threads :
        /\ returned = <<1>>
        /\ ExecEnded(t, "ok") /\ call[t].id = 1
        /\ ret[t] = Buffer("{\"Maybe\":null}")
        /\ ExecDone(u) /\ call[u].id = 1 /\ Undecodable(u)
        /\ ret[u] = Buffer(MalformedCommandEnvelope)

(* C13: an execute that resolves a live id with a command text that does   *)
(* not decode returns the invalid-command-JSON error envelope, not the      *)
(* panic envelope; it makes no engine call, takes no borrow, and leaves     *)
(* the entries and the counter as they are, so the id is live afterwards;   *)
(* the step that enters the call changes nothing of the registry either.    *)
C13_MalformedCommandFrame ==
    [][\A t \in Threads :
        /\ (/\ pc[t] = "exec_get" /\ pc'[t] # "exec_get"
            /\ call[t].id \in DOMAIN handles
            /\ call[t].cmd = CStr(GarbageText))
              => /\ pc'[t] = "idle"
                 /\ ret'[t] = Buffer(MalformedCommandEnvelope)
                 /\ ret'[t] # Buffer(PanicEnvelope)
                 /\ ~local'[t].fault
                 /\ local'[t].engine = ""
                 /\ handles' = handles
                 /\ call[t].id \in DOMAIN handles'
                 /\ next_id' = next_id
                 /\ guard' = guard /\ guard'[t] = NoGuard
                 /\ ~aborted'
        /\ (pc[t] = "idle" /\ call'[t].op = "execute" /\ pc'[t] # "idle")
              => /\ pc'[t] = "exec_get"
                 /\ handles' = handles /\ next_id' = next_id /\ guard' = guard
      ]_vars

(* An execute of garbage on the live id 1 has returned the error; 1 is     *)
(* still live, the counter is where the open left it, and the other        *)
(* thread's execute on 1 reached the engine and returned its output.        *)
C13_Witness ==
    \E t, u \in Threads :
        /\ ExecDone(t) /\ call[t].id = 1 /\ call[t].cmd = CStr(GarbageText)
        /\ local[t].found
        /\ ret[t] = Buffer(MalformedCommandEnvelope)
        /\ DOMAIN handles = {1} /\ next_id = 2
        /\ guard[t] = NoGuard
        /\ ExecEnded(u, "ok") /\ call[u].id = 1

TextOps == {"open", "open_memory", "execute", "ping"}

(* A step in which a call of thread t returned to the caller, and one in  *)
(* which t moved on inside a call.  (A call that returns in one step and    *)
(* repeats the thread's previous call with the same result shows only in    *)
(* the buffers.)                                                            *)
Returns(t) ==
    /\ pc'[t] = "idle"
    /\ pc[t] # "idle" \/ call'[t] # call[t] \/ ret'[t] # ret[t] \/ local'[t] # local[t]
Inside(t) == pc'[t] # "idle" /\ (pc'[t] # pc[t] \/ aborted' # aborted)

(* C14: with a caller that passes each buffer it was handed to             *)
(* strata_free_string once: every return of open, open_memory, execute and  *)
(* ping (success, reported error, caught fault) hands over exactly one      *)
(* buffer, at a non-null address that was not in use, with a text in it;    *)
(* close and the steps inside a call hand over none; strata_free_string of  *)
(* null changes nothing, of a buffer reclaims that buffer, which was        *)
(* still allocated, and no other; the buffers grow only by one, at the      *)
(* return of a text-returning call, and shrink only by one, in a            *)
(* strata_free_string of that address; so the buffers allocated are at all  *)
(* times the ones the caller holds.                                         *)
C14_OneBufferPerCall ==
    [][/\ owned = buffers /\ owned' = buffers'
       /\ NullAddr \notin buffers'
       /\ \A t \in Threads :
            (Returns(t) /\ call'[t].op \in TextOps) =>
                /\ ret'[t].kind = "buffer" /\ ret'[t].text # ""
                /\ \E a \in Addresses :
                     a \notin buffers /\ buffers' = buffers \cup {a}
                /\ Cardinality(buffers') = Cardinality(buffers) + 1
       /\ \A t \in Threads :
            (Returns(t) /\ call'[t].op = "close") =>
                ret'[t].kind # "buffer" /\ buffers' = buffers
       /\ \A t \in Threads :
            (Returns(t) /\ call'[t].op = "free") =>
                /\ ret'[t] = Void
                /\ <<next_id, handles, guard, initialized, aborted>>'
                      = <<next_id, handles, guard, initialized, aborted>>
                /\ IF call'[t].ptr = NullAddr
                   THEN buffers' = buffers
                   ELSE /\ call'[t].ptr \in buffers
                        /\ buffers' = buffers \ {call'[t].ptr}
                        /\ Cardinality(buffers') = Cardinality(buffers) - 1
       /\ \A t \in Threads : Inside(t) => buffers' = buffers
       /\ buffers' # buffers =>
             \/ \E a \in Addresses, t \in Threads :
                   /\ a \notin buffers /\ buffers' = buffers \cup {a}
                   /\ pc'[t] = "idle" /\ call'[t].op \in TextOps
                   /\ ret'[t].kind = "buffer"
             \/ \E a \in buffers, t \in Threads :
                   /\ buffers' = buffers \ {a}
                   /\ pc'[t] = "idle" /\ call'[t].op = "free" /\ call'[t].ptr = a
      ]_vars

(* Two buffers were handed out, the first was freed, and the call after    *)
(* that, an execute that the barrier answered for, got its address again;   *)
(* the other thread last freed null.                                        *)
C14_Witness ==
    \E t, u \in Threads :
        /\ ExecDone(t) /\ local[t].fault /\ ret[t] = Buffer(PanicEnvelope)
        /\ Completed(u, "free") /\ call[u].ptr = NullAddr
        /\ buffers = {1, 2} /\ owned = buffers

InvalidPathPtrEnvelope ==
    "{\"error\":{\"Internal\":{\"reason\":\"path is null or invalid UTF-8\"}}}"

(* A step in which thread t, idle before, made the call op. *)
Calls(t, op) ==
    /\ pc[t] = "idle"
    /\ call'[t].op = op
    /\ call'[t] # call[t] \/ ret'[t] # ret[t] \/ local'[t] # local[t] \/ pc'[t] # "idle"

(* What a call can change of the registry and of the histories. *)
Registry == <<next_id, handles, guard, initialized, issued, returned, removed, aborted>>

(* C15: strata_open with a null or non-UTF-8 path returns, in that one     *)
(* step, the path-is-null-or-invalid error envelope; it makes no engine     *)
(* call, takes no id and inserts nothing.  strata_execute with a null or    *)
(* non-UTF-8 command returns the command-is-null-or-invalid error envelope  *)
(* whether the id is live or not; it makes no engine call and no lookup.    *)
(* Neither touches the registry, which is not even initialized by them.     *)
C15_InvalidInputOnly ==
    [][\A t \in Threads :
        /\ (Calls(t, "open") /\ call'[t].path \in {NullPtr, BadUtf8}) =>
              /\ pc'[t] = "idle"
              /\ ret'[t] = Buffer(InvalidPathPtrEnvelope)
              /\ local'[t].engine = "" /\ local'[t].id = NoId
              /\ ~local'[t].fault
              /\ Registry' = Registry
        /\ (Calls(t, "execute") /\ call'[t].cmd \in {NullPtr, BadUtf8}) =>
              /\ pc'[t] = "idle"
              /\ ret'[t] = Buffer(InvalidCommandPtrEnvelope)
              /\ local'[t].engine = "" /\ local'[t].cmd = ""
              /\ ~local'[t].fault
              /\ Registry' = Registry
      ]_vars

(* With 1 live: an execute on 1 with a non-UTF-8 command and an open with  *)
(* a null path were both answered with their error; 1 is the only entry     *)
(* and the counter is at 2.                                                 *)
C15_Witness ==
    \E t, u \in Threads :
        /\ ExecDone(t) /\ call[t].id = 1 /\ call[t].cmd = BadUtf8 /\ local[t].found
        /\ ret[t] = Buffer(InvalidCommandPtrEnvelope)
        /\ Completed(u, "open") /\ call[u].path = NullPtr
        /\ ret[u] = Buffer(InvalidPathPtrEnvelope)
        /\ DOMAIN handles = {1} /\ next_id = 2

(* Reading a buffer as the caller's JSON parser does, character by         *)
(* character.  Ch(s, i) is the i-th character of s.  ReadString(s, i)       *)
(* reads the rest of a JSON string whose opening quote is just before i: up *)
(* to the closing quote, which no backslash precedes, every backslash must  *)
(* begin an escape; it gives the text read and the position after the       *)
(* closing quote.  (The model's NUL is given back for \u0000.)              *)
Ch(s, i) == SubSeq(s, i, i)
Unread == [ok |-> FALSE, val |-> "", next |-> 0]
RECURSIVE ReadString(_, _)
ReadString(s, i) ==
    IF i > Len(s) THEN Unread
    ELSE IF Ch(s, i) = Q THEN [ok |-> TRUE, val |-> "", next |-> i + 1]
    ELSE IF Ch(s, i) = BS
         THEN IF i + 1 <= Len(s) /\ Ch(s, i + 1) \in {Q, BS, "/"}
              THEN LET r == ReadString(s, i + 2)
                   IN [r EXCEPT !.val = Ch(s, i + 1) \o r.val]
              ELSE IF i + 5 <= Len(s) /\ SubSeq(s, i + 1, i + 5) = "u0000"
              THEN LET r == ReadString(s, i + 6)
                   IN [r EXCEPT !.val = NUL \o r.val]
              ELSE Unread
    ELSE LET r == ReadString(s, i + 1)
         IN [r EXCEPT !.val = Ch(s, i) \o r.val]

ErrorPrefix == "{\"error\":{\"Internal\":{\"reason\":\""

(* The reason of a buffer that parses as {"error":{"Internal":{"reason":   *)
(* <string>}}} and nothing more; not ok for any other buffer.               *)
ReadError(text) ==
    IF ~StartsWith(text, ErrorPrefix) THEN Unread
    ELSE LET r == ReadString(text, Len(ErrorPrefix) + 1)
         IN IF r.ok /\ SubSeq(text, r.next, Len(text)) = "}}}" THEN r ELSE Unread

(* Thread t's last call, an open, open_memory or execute, failed. *)
Failed(t) ==
    /\ pc[t] = "idle"
    /\ \/ call[t].op \in {"open", "open_memory"} /\ local[t].id = NoId
       \/ call[t].op = "execute" /\ local[t].engine # "ok"

PingEnvelope == "{\"ok\":\"strata-foundry-bridge\"}"

(* C17: strata_ping can be called by an idle thread in every state of a    *)
(* running process, whatever the other threads are in the middle of; it     *)
(* returns in one step, with the literal {"ok":"strata-foundry-bridge"},    *)
(* and leaves the entries, the borrows, the counter and the histories as    *)
(* they are and the registry uninitialized if it was.                       *)
C17_PingFixedAndPure ==
    [][\A t \in Threads :
        /\ (pc[t] = "idle" /\ ~aborted) => ENABLED strata_ping(t)
        /\ Calls(t, "ping") =>
              /\ pc'[t] = "idle"
              /\ ret'[t] = Buffer(PingEnvelope)
              /\ ~local'[t].fault /\ local'[t].engine = ""
              /\ Registry' = Registry
        /\ Completed(t, "ping")' => ret'[t] = Buffer(PingEnvelope)
      ]_vars

(* One thread's last call is an answered ping; the other is inside the    *)
(* engine on the live handle 1, holding its borrow.                         *)
C17_Witness ==
    \E t, u \in Threads :
        /\ Completed(t, "ping") /\ ret[t] = Buffer(PingEnvelope)
        /\ pc[u] = "exec_engine" /\ guard[u] = 1
        /\ DOMAIN handles = {1} /\ next_id = 2

(* Thread t is in the close that removed the entry of id, at the drop of   *)
(* the removed value.                                                       *)
TearingDown(t, id) ==
    /\ pc[t] = "close_drop" /\ call[t].op = "close"
    /\ local[t].found /\ call[t].id = id /\ local[t].id = id

(* C18: the resource of an id is dropped at most once, and only after a    *)
(* close removed its entry: every removed id is either dropped or being     *)
(* dropped by the close that removed it, which has not returned yet; when   *)
(* a close that removed an entry has returned, the drop has run to its end  *)
(* (a drop that faults does not let the close return: the fault leaves      *)
(* through the call); a live entry is never dropped; and every drop is a    *)
(* step of the close that removed the entry, not of an open, an execute, a  *)
(* failed or faulting call or a close that found no entry.                  *)
C18_TeardownOnceInClose ==
    [][/\ \A id \in DOMAIN dropped' : dropped'[id] = 1
       /\ DOMAIN dropped' \subseteq removed'
       /\ DOMAIN dropped' \cap DOMAIN handles' = {}
       /\ \A id \in removed' :
            id \in DOMAIN dropped' \/ \E t \in Threads : TearingDown(t, id)'
       /\ \A t \in Threads :
            (Completed(t, "close")' /\ local'[t].found) =>
                /\ call'[t].id \in DOMAIN dropped'
                /\ ret'[t] = Void => ~local'[t].fault
       /\ \A t \in Threads :
            (Completed(t, "close")' /\ ~local'[t].found) =>
                (pc[t] = "close_remove" => dropped' = dropped)
       /\ dropped' # dropped =>
            \E t \in Threads :
                /\ TearingDown(t, call[t].id)
                /\ call[t].id \in removed /\ call[t].id \notin DOMAIN dropped
                /\ dropped' = Drop(dropped, call[t].id)
                /\ pc'[t] = "idle" \/ aborted'
      ]_vars

(* One thread opened 1, closed it, which dropped the resource, and closed  *)
(* it again, which found nothing and dropped nothing.                       *)
C18_Witness ==
    \E t \in Threads :
        /\ OnlyThread(t)
        /\ Completed(t, "close") /\ call[t].id = 1 /\ ~local[t].found
        /\ ret[t] = Void
        /\ removed = {1}
        /\ dropped = [k \in {1} |-> 1]

(* C19, as claimed: every call that was begun returns. *)
C19_EveryCallReturns ==
    \A t \in Threads : (pc[t] # "idle") ~> (pc[t] = "idle")

(* Every call that was begun returns unless the process is aborted. *)
C19_ReturnsUnlessAborted ==
    \A t \in Threads : (pc[t] # "idle") ~> (pc[t] = "idle" \/ aborted)

(* The calls never deadlock on the shard locks: while the process runs and *)
(* a call is in flight, some call in flight can take a step.                *)
C19_NoLockDeadlock ==
    (~aborted /\ \E t \in Threads : pc[t] # "idle") =>
        \E t \in Threads : pc[t] # "idle" /\ ENABLED CallStep(t)

(* C20: the config argument of strata_open has no effect: a step that is a *)
(* strata_open of a path with one config (null, valid text, not UTF-8) is   *)
(* the same step with every other config, from the same state to the same   *)
(* state, the returned envelope and the registry included; whether the      *)
(* call goes on to the engine or returns the invalid-path error depends on  *)
(* the path alone; and nothing of the config is kept for the later steps    *)
(* of the call.                                                             *)
C20_ConfigIgnored ==
    [][\A t \in Threads, path \in PathInputs, c1 \in ConfigInputs :
        strata_open(t, path, c1) =>
            /\ \A c2 \in ConfigInputs : strata_open(t, path, c2)
            /\ IF cstr_to_str(path).some
               THEN pc'[t] = "open_engine" /\ ret'[t] = NoRet
               ELSE pc'[t] = "idle" /\ ret'[t] = Buffer(InvalidPathPtrEnvelope)
            /\ call'[t] = [NoCall EXCEPT !.op = "open", !.path = path]
            /\ local'[t] = NoLocal
      ]_vars

(* An open of a path has returned {"ok":1} and 1 is live; the step that    *)
(* began it was (also) the one with a config that is not UTF-8, as the      *)
(* next open, which the other thread can begin with such a config, will be. *)
C20_Witness ==
    \E t, u \in Threads :
        /\ t # u
        /\ OpenDone(t) /\ call[t].op = "open" /\ call[t].path = CStr(<<"/db">>)
        /\ ret[t] = Buffer("{\"ok\":1}")
        /\ DOMAIN handles = {1}
        /\ pc[u] = "idle"
        /\ ENABLED (strata_open(u, CStr(<<"/db">>), BadUtf8) /\ pc'[u] = "open_engine")

(* The opens that have taken an id from the counter and not yet returned. *)
Inserting == {t \in Threads : pc[t] = "open_insert"}

(* Thread t's last call, an open or open_memory, returned an error. *)
OpenFailed(t) ==
    /\ pc[t] = "idle"
    /\ call[t].op \in {"open", "open_memory"}
    /\ StartsWith(ret[t].text, ErrorPrefix)

(* C21: an open or open_memory that fails (the engine refuses or panics,   *)
(* or the path is null or not UTF-8) has taken no id and has no entry; the  *)
(* ids taken from the counter are 1, 2, ..., n in this order with the       *)
(* counter at n + 1, and each of them belongs to an open that has returned  *)
(* it or is about to insert it; so whenever no open is between its          *)
(* fetch_add and its return, the k opens that succeeded returned exactly    *)
(* the ids 1..k, the counter's next value is k + 1, and every entry and     *)
(* every removed id is one of them.                                         *)
C21_FailedOpenTakesNoId ==
    /\ issued = [i \in 1..Len(issued) |-> i]
    /\ next_id = Len(issued) + 1
    /\ Len(issued) = Len(returned) + Cardinality(Inserting)
    /\ Range(issued) = Range(returned) \cup {local[t].id : t \in Inserting}
    /\ DOMAIN handles \cup removed = Range(returned)
    /\ \A t \in Threads :
         /\ OpenFailed(t) <=> Failed(t) /\ call[t].op # "execute"
         /\ OpenFailed(t) =>
              /\ local[t].id = NoId
              /\ local[t].strata = NoStrata
         /\ pc[t] = "open_engine" => local[t].id = NoId
    /\ Inserting = {} =>
         /\ Range(returned) = 1..Len(returned)
         /\ next_id = Len(returned) + 1

(* The engine refused one thread's open of a path, which got the error     *)
(* envelope, while the other thread's opens, one of them after that         *)
(* failure, returned 1 and 2; the counter stands at 3.                      *)
C21_Witness ==
    \E t, u \in Threads :
        /\ t # u
        /\ OpenFailed(u) /\ call[u].op = "open" /\ local[u].engine = "err"
        /\ OpenDone(t) /\ ret[t] = Buffer("{\"ok\":2}")
        /\ returned = <<1, 2>>
        /\ next_id = 3

====
